---- MODULE Spec2Model ----
(***************************************************************************)
(* TLA+ model of src/src/app/api/payments/square/route.ts: the POST        *)
(* (submit payment) and PUT (update payment status) handlers, together     *)
(* with the three collaborators they call: the payment gateway             *)
(* (createPayment), the payments table and the tournament_registrations    *)
(* table of the store.                                                     *)
(*                                                                         *)
(* A handler is an async function: the code between two awaits runs        *)
(* atomically, and handlers of concurrent requests interleave at their     *)
(* awaits.  Each action below is one such atomic stretch of one request,   *)
(* from the completion of the awaited call to the issue of the next one    *)
(* (or to the response).                                                   *)
(*                                                                         *)
(* JavaScript values of the request body are records [t, s, n, d]: t is    *)
(* the typeof tag, s the characters of a string, n/d a number as a         *)
(* fraction (d > 0), so that non-integral amounts exist.  Strings are      *)
(* sequences of one-character strings so that toLowerCase is computed.     *)
(***************************************************************************)
EXTENDS Integers, Sequences, FiniteSets, TLC

VARIABLES
  req,            \* slot -> the request being handled in that slot
  payments,       \* the store's payments table: sequence of rows
  registrations,  \* the store's tournament_registrations table
  gateway,        \* the charges that exist at the payment gateway
  nPosts,         \* POST requests admitted so far (bounds the model)
  chargeOk,       \* history: gateway charge calls that returned a payment
  insertFailed    \* history: inserts that returned an error

vars == <<req, payments, registrations, gateway, nPosts, chargeOk, insertFailed>>

\* Bound of the model: the number of POST requests admitted in one behaviour.
MaxPosts == 2

\* Requests in flight at once.
Slots == {1, 2}

\* One request at a time.
OneSlot == {1}

----------------------------------------------------------------------------
\* JavaScript values

Undef == [t |-> "undefined", s |-> <<>>, n |-> 0, d |-> 1]

\* JSON null.
Null == [t |-> "null", s |-> <<>>, n |-> 0, d |-> 1]

\* JSON false.
False == [t |-> "boolean", s |-> <<>>, n |-> 0, d |-> 1]

Str(cs) == [t |-> "string", s |-> cs, n |-> 0, d |-> 1]

Num(n, d) == [t |-> "number", s |-> <<>>, n |-> n, d |-> d]

\* !v is FALSE: undefined, null, false, "" and 0 are falsy.
Truthy(v) ==
  CASE v.t = "undefined" -> FALSE
    [] v.t = "null" -> FALSE
    [] v.t = "boolean" -> v.n # 0
    [] v.t = "string" -> v.s # <<>>
    [] v.t = "number" -> v.n # 0

\* Number.isInteger(v): a number with no fractional part.
IsInteger(v) == v.t = "number" /\ v.n % v.d = 0

RECURSIVE Gcd(_, _)
Gcd(a, b) == IF b = 0 THEN a ELSE Gcd(b, a % b)

Abs(x) == IF x < 0 THEN -x ELSE x

\* The number n/d in lowest terms.
Reduce(n, d) ==
  LET g == Gcd(Abs(n), d)
  IN  Num(n \div g, d \div g)

\* amount / 100
DivBy100(v) == Reduce(v.n, v.d * 100)

UpperCase == << "A","B","C","D","E","F","G","H","I","J","K","L","M",
                "N","O","P","Q","R","S","T","U","V","W","X","Y","Z" >>

LowerCase == << "a","b","c","d","e","f","g","h","i","j","k","l","m",
                "n","o","p","q","r","s","t","u","v","w","x","y","z" >>

LowerChar(c) ==
  IF \E i \in DOMAIN UpperCase : UpperCase[i] = c
  THEN LowerCase[CHOOSE i \in DOMAIN UpperCase : UpperCase[i] = c]
  ELSE c

\* String.prototype.toLowerCase
ToLowerCase(cs) == [i \in DOMAIN cs |-> LowerChar(cs[i])]

----------------------------------------------------------------------------
\* String literals of the code and of the inputs, as character sequences

GBP == << "G","B","P" >>

TournamentPrefix == << "t","o","u","r","n","a","m","e","n","t","_" >>

Tok == << "c","n","o","n" >>

KeyA == << "k","1" >>

KeyB == << "k","2" >>

User1 == << "u","1" >>

Tour1 == << "t","1" >>

Fee == << "f","e","e" >>

COMPLETED == << "C","O","M","P","L","E","T","E","D" >>

APPROVED == << "A","P","P","R","O","V","E","D" >>

Failed == << "F","a","i","l","e","d" >>

Digits == << "1","2","3","4","5","6","7","8","9" >>

----------------------------------------------------------------------------
\* Request bodies

\* A body is what request.json() yields: ok = FALSE when the JSON does not
\* parse (request.json() rejects); a field that is absent reads as undefined.
Body(ok, sourceId, amount, description, idempotencyKey, userId, tournamentId, paymentId, status) ==
  [ok |-> ok, sourceId |-> sourceId, amount |-> amount,
   description |-> description, idempotencyKey |-> idempotencyKey,
   userId |-> userId, tournamentId |-> tournamentId,
   paymentId |-> paymentId, status |-> status]

MalformedBody == Body(FALSE, Undef, Undef, Undef, Undef, Undef, Undef, Undef, Undef)

NoBody == MalformedBody

\* A tournament entry fee of 250 pence, paid by User1 for Tour1 with KeyA.
EntryFee ==
  Body(TRUE, Str(Tok), Num(250, 1), Str(Fee), Str(KeyA), Str(User1), Str(Tour1),
       Undef, Undef)

\* The valid requests: the entry fee; a request that reuses KeyA for another
\* amount, with a tournament and no user; and two requests with KeyB, with a
\* user and no tournament, and with neither.
ValidPostBodies ==
  {EntryFee,
   [EntryFee EXCEPT !.amount = Num(100, 1), !.userId = Undef],
   [EntryFee EXCEPT !.amount = Num(100, 1), !.idempotencyKey = Str(KeyB),
                    !.tournamentId = Undef],
   [EntryFee EXCEPT !.amount = Num(100, 1), !.idempotencyKey = Str(KeyB),
                    !.userId = Undef, !.tournamentId = Undef,
                    !.description = Undef]}

\* Zero, a negative, 1.5, the string "100": none a positive integer.
BadAmounts == {Num(0, 1), Num(-100, 1), Num(3, 2), Str(<< "1","0","0" >>)}

\* undefined, null, false and "" are falsy.
Missing == {Undef, Null, False, Str(<<>>)}

\* EntryFee with a required field left out, with all three left out, or with
\* an amount that is no positive integer.
InvalidPostBodies ==
  {[EntryFee EXCEPT !.sourceId = v] : v \in Missing}
  \cup {[EntryFee EXCEPT !.idempotencyKey = v] : v \in Missing}
  \cup {[EntryFee EXCEPT !.amount = v] : v \in {Undef, Null} \cup BadAmounts}
  \cup {[EntryFee EXCEPT !.sourceId = Undef, !.amount = Undef,
                         !.idempotencyKey = Undef]}

PostBodies == {MalformedBody} \cup ValidPostBodies \cup InvalidPostBodies

\* Identifier the gateway gives its i-th charge.
PaymentId(i) == << "p", Digits[i] >>

PutPaymentIds == {Undef, Str(PaymentId(1)), Str(PaymentId(2))}

PutStatuses == {Undef, Str(<<>>), Str(Failed), Num(5, 1)}

PutBodies ==
  {MalformedBody} \cup
  {Body(TRUE, Undef, Undef, Undef, Undef, Undef, Undef, pid, st) :
     pid \in PutPaymentIds, st \in PutStatuses}

----------------------------------------------------------------------------
\* Responses

Json(status, body) == [status |-> status, body |-> body]

NoResponse == Json(0, [success |-> FALSE])

MissingInfoResponse ==
  Json(400, [success |-> FALSE, error |-> "Missing required payment information"])

InvalidAmountResponse ==
  Json(400, [success |-> FALSE, error |-> "Invalid payment amount"])

\* Faulty variant: the insert's error is treated as a failure of the request.
RecordFailedResponse_AsFailure(payment) ==
  Json(500, [success |-> FALSE, error |-> "Payment processing failed"])

\* The insert returned an error after the charge succeeded.
RecordFailedResponse(payment) ==
  Json(200, [success |-> TRUE, paymentId |-> payment.id,
             warning |-> "Payment processed but record creation failed"])

PaymentResponse(payment, paymentRecord) ==
  Json(200, [success |-> TRUE, paymentId |-> payment.id, amount |-> payment.amount,
             status |-> payment.status, recordId |-> paymentRecord.id])

\* Faulty variant: the registration update's error fails the request.
SyncedResponse_ErrorFails(payment, paymentRecord, registrationError) ==
  IF registrationError
  THEN Json(500, [success |-> FALSE, error |-> "Payment processing failed"])
  ELSE PaymentResponse(payment, paymentRecord)

\* The response once the registration update settled: its error is logged
\* and nothing else.
SyncedResponse(payment, paymentRecord, registrationError) ==
  PaymentResponse(payment, paymentRecord)

\* Faulty variant: the catch block does not tell a SquarePaymentError apart.
PostCatchResponse_NoInstanceOf(error) ==
  Json(500, [success |-> FALSE, error |-> "Payment processing failed"])

\* The catch block of POST.
PostCatchResponse(error) ==
  IF error.kind = "SquarePaymentError"
  THEN Json(400, [success |-> FALSE, error |-> error.message])
  ELSE Json(500, [success |-> FALSE, error |-> "Payment processing failed"])

MissingPutResponse ==
  Json(400, [success |-> FALSE, error |-> "Missing payment ID or status"])

UpdateFailedResponse ==
  Json(500, [success |-> FALSE, error |-> "Failed to update payment status"])

UpdatedResponse(data) == Json(200, [success |-> TRUE, payment |-> data])

\* The catch block of PUT.
PutCatchResponse == Json(500, [success |-> FALSE, error |-> "Payment update failed"])

----------------------------------------------------------------------------
\* The payment gateway (createPayment of @/lib/square)

NoPayment == [id |-> <<>>, amount |-> Num(0, 1), currency |-> <<>>, status |-> <<>>]

NoError == [kind |-> "none", message |-> ""]

\* Messages a SquarePaymentError carries.
GatewayMessages == {"Card declined", "Invalid source id"}

GatewayStatuses == {COMPLETED, APPROVED}

CreatePaymentArgs(b) ==
  [sourceId |-> b.sourceId, amount |-> b.amount, currency |-> GBP,
   idempotencyKey |-> b.idempotencyKey, note |-> b.description,
   referenceId |-> IF Truthy(b.tournamentId)
                   THEN Str(TournamentPrefix \o b.tournamentId.s)
                   ELSE Undef]

\* The charges made with the idempotency key of args.
ChargesWithKey(args) ==
  {i \in DOMAIN gateway : gateway[i].idempotencyKey = args.idempotencyKey}

\* What a charge call can come to: a SquarePaymentError with a message, some
\* other error (the network, say), or a payment.  A key seen before resolves
\* to the charge made with it when the request repeats that charge, and is
\* rejected when it asks for another amount or source; a new key makes a new
\* charge of the amount asked for.
CreatePayment(args) ==
  {[kind |-> "throw", error |-> [kind |-> "SquarePaymentError", message |-> m],
    payment |-> NoPayment, isNew |-> FALSE] : m \in GatewayMessages}
  \cup
  {[kind |-> "throw", error |-> [kind |-> "Error", message |-> "fetch failed"],
    payment |-> NoPayment, isNew |-> FALSE]}
  \cup
  IF ChargesWithKey(args) # {}
  THEN {[kind |-> "ok", error |-> NoError, payment |-> gateway[i].payment,
         isNew |-> FALSE] :
          i \in {j \in ChargesWithKey(args) :
                   /\ gateway[j].amount = args.amount
                   /\ gateway[j].sourceId = args.sourceId}}
  ELSE {[kind |-> "ok", error |-> NoError,
         payment |-> [id |-> PaymentId(Len(gateway) + 1), amount |-> args.amount,
                      currency |-> args.currency, status |-> st],
         isNew |-> TRUE] : st \in GatewayStatuses}

\* The gateway after a call that came to outcome out.
GatewayAfter(args, out) ==
  IF out.kind = "ok" /\ out.isNew
  THEN Append(gateway, [payment |-> out.payment, amount |-> args.amount,
                        sourceId |-> args.sourceId,
                        idempotencyKey |-> args.idempotencyKey])
  ELSE gateway

----------------------------------------------------------------------------
\* The store (supabase): the payments and tournament_registrations tables

NoRow ==
  [id |-> 0, user_id |-> Undef, tournament_id |-> Undef, square_payment_id |-> <<>>,
   amount |-> Num(0, 1), currency |-> <<>>, status |-> <<>>, payment_type |-> "",
   description |-> Undef,
   metadata |-> [square_payment |-> NoPayment, idempotency_key |-> Undef],
   updated_at |-> "null"]

\* Faulty variant: the pence are stored as they are.
StoredAmount_InPence(amount) == amount

\* amount: amount / 100 of the insert.
StoredAmount(amount) == DivBy100(amount)

\* payment_type of the insert.
PaymentType(tournamentId) == IF Truthy(tournamentId) THEN "entry_fee" ELSE "other"

\* The row handed to insert(); the store gives it its id.
PaymentRow(b, payment) ==
  [id |-> 0, user_id |-> b.userId, tournament_id |-> b.tournamentId,
   square_payment_id |-> payment.id, amount |-> StoredAmount(b.amount),
   currency |-> payment.currency, status |-> ToLowerCase(payment.status),
   payment_type |-> PaymentType(b.tournamentId), description |-> b.description,
   metadata |-> [square_payment |-> payment, idempotency_key |-> b.idempotencyKey],
   updated_at |-> "null"]

\* insert(row).select().single(): the row as stored.
Inserted(row) == [row EXCEPT !.id = Len(payments) + 1]

\* Faulty variant: an upsert on square_payment_id in place of the insert.
PaymentsWith_Upsert(row) ==
  IF \E i \in DOMAIN payments : payments[i].square_payment_id = row.square_payment_id
  THEN [i \in DOMAIN payments |->
          IF payments[i].square_payment_id = row.square_payment_id
          THEN [row EXCEPT !.id = payments[i].id]
          ELSE payments[i]]
  ELSE Append(payments, row)

\* payments after the insert of row: one more row.
PaymentsWith(row) == Append(payments, row)

NoRegistrationUpdate ==
  [payment_status |-> "", payment_id |-> <<>>, payment_amount |-> Num(0, 1),
   tournament_id |-> Undef, user_id |-> Undef]

\* Faulty variant: if (tournamentId)
IsTournamentRegistration_NoUser(b) == Truthy(b.tournamentId)

\* if (tournamentId && userId)
IsTournamentRegistration(b) == Truthy(b.tournamentId) /\ Truthy(b.userId)

\* The update of tournament_registrations and its two eq() filters.
RegistrationUpdate(b, payment) ==
  [payment_status |-> "completed", payment_id |-> payment.id,
   payment_amount |-> DivBy100(b.amount),
   tournament_id |-> b.tournamentId, user_id |-> b.userId]

\* tournament_registrations after the update u was applied.
RegistrationsAfter(u) ==
  [i \in DOMAIN registrations |->
     IF /\ Str(registrations[i].tournament_id) = u.tournament_id
        /\ Str(registrations[i].user_id) = u.user_id
     THEN [registrations[i] EXCEPT !.payment_status = u.payment_status,
                                   !.payment_id = u.payment_id,
                                   !.payment_amount = u.payment_amount]
     ELSE registrations[i]]

NoPaymentUpdate == [status |-> <<>>, updated_at |-> "null", square_payment_id |-> Undef]

\* Faulty variant: the status is written as supplied.
PaymentUpdate_AsSupplied(b) ==
  [status |-> b.status.s, updated_at |-> "now", square_payment_id |-> b.paymentId]

\* The update of payments PUT issues, and its eq() filter.
PaymentUpdate(b) ==
  [status |-> ToLowerCase(b.status.s), updated_at |-> "now",
   square_payment_id |-> b.paymentId]

\* The rows of payments the filter of u selects.
Matching(u) ==
  {i \in DOMAIN payments : Str(payments[i].square_payment_id) = u.square_payment_id}

\* payments after the update u was applied to the rows it selects.
PaymentsAfter(u) ==
  [i \in DOMAIN payments |->
     IF i \in Matching(u)
     THEN [payments[i] EXCEPT !.status = u.status, !.updated_at = u.updated_at]
     ELSE payments[i]]

----------------------------------------------------------------------------
\* The handlers

\* A slot with no request in it.
Idle ==
  [op |-> "none", pc |-> "idle", body |-> NoBody, calls |-> <<>>,
   thrown |-> NoError, payment |-> NoPayment, dbError |-> "none",
   paymentRecord |-> NoRow, update |-> NoRegistrationUpdate,
   registrationError |-> "none", paymentUpdate |-> NoPaymentUpdate,
   resp |-> NoResponse]

Free(s) == req[s].pc \in {"idle", "done"}

\* Faulty variant: if (!sourceId || !amount)
MissingInfo_NoKey(b) == ~Truthy(b.sourceId) \/ ~Truthy(b.amount)

\* if (!sourceId || !amount || !idempotencyKey)
MissingInfo(b) ==
  ~Truthy(b.sourceId) \/ ~Truthy(b.amount) \/ ~Truthy(b.idempotencyKey)

\* Faulty variant: if (!Number.isInteger(amount))
InvalidAmount_NoSign(b) == ~IsInteger(b.amount)

\* if (!Number.isInteger(amount) || amount <= 0)
InvalidAmount(b) == ~IsInteger(b.amount) \/ b.amount.n <= 0

\* POST up to its first external call: the body is parsed and validated, and
\* createPayment is called.
PostReceive(s, b) ==
  /\ Free(s)
  /\ (b.ok /\ ~MissingInfo(b) /\ ~InvalidAmount(b)) => nPosts < MaxPosts
  /\ LET r == [Idle EXCEPT !.op = "POST", !.body = b]
     IN  IF ~b.ok
         THEN /\ req' = [req EXCEPT ![s] =
                   [r EXCEPT !.pc = "done",
                             !.thrown = [kind |-> "SyntaxError", message |-> "Unexpected token"],
                             !.resp = PostCatchResponse(
                                        [kind |-> "SyntaxError", message |-> "Unexpected token"])]]
              /\ UNCHANGED nPosts
         ELSE IF MissingInfo(b)
         THEN /\ req' = [req EXCEPT ![s] =
                   [r EXCEPT !.pc = "done", !.resp = MissingInfoResponse]]
              /\ UNCHANGED nPosts
         ELSE IF InvalidAmount(b)
         THEN /\ req' = [req EXCEPT ![s] =
                   [r EXCEPT !.pc = "done", !.resp = InvalidAmountResponse]]
              /\ UNCHANGED nPosts
         ELSE /\ req' = [req EXCEPT ![s] =
                   [r EXCEPT !.pc = "charging", !.calls = << "createPayment" >>]]
              /\ nPosts' = nPosts + 1
  /\ UNCHANGED <<payments, registrations, gateway, chargeOk, insertFailed>>

\* createPayment settles: it throws, and the catch block answers, or it
\* returns the payment and the insert into payments is issued.
PostCharged(s) ==
  /\ req[s].pc = "charging"
  /\ LET r == req[s]
         args == CreatePaymentArgs(r.body)
     IN  \E out \in CreatePayment(args) :
           /\ gateway' = GatewayAfter(args, out)
           /\ IF out.kind = "throw"
              THEN /\ req' = [req EXCEPT ![s] =
                        [r EXCEPT !.pc = "done", !.thrown = out.error,
                                  !.resp = PostCatchResponse(out.error)]]
                   /\ UNCHANGED chargeOk
              ELSE /\ req' = [req EXCEPT ![s] =
                        [r EXCEPT !.pc = "inserting", !.payment = out.payment,
                                  !.calls = Append(r.calls, "insert")]]
                   /\ chargeOk' = chargeOk + 1
  /\ UNCHANGED <<payments, registrations, nPosts, insertFailed>>

\* The insert settles: with an error, and the warning response is sent, or
\* with the stored row; then the registration update is issued for a
\* tournament registration, and the payment response is sent otherwise.
PostInserted(s) ==
  /\ req[s].pc = "inserting"
  /\ LET r == req[s]
         row == Inserted(PaymentRow(r.body, r.payment))
     IN  \E dbError \in BOOLEAN :
           IF dbError
           THEN /\ req' = [req EXCEPT ![s] =
                     [r EXCEPT !.pc = "done", !.dbError = "error",
                               !.resp = RecordFailedResponse(r.payment)]]
                /\ insertFailed' = insertFailed + 1
                /\ UNCHANGED payments
           ELSE /\ payments' = PaymentsWith(row)
                /\ UNCHANGED insertFailed
                /\ IF IsTournamentRegistration(r.body)
                   THEN req' = [req EXCEPT ![s] =
                          [r EXCEPT !.pc = "syncing", !.dbError = "null",
                                    !.paymentRecord = row,
                                    !.update = RegistrationUpdate(r.body, r.payment),
                                    !.calls = Append(r.calls, "update")]]
                   ELSE req' = [req EXCEPT ![s] =
                          [r EXCEPT !.pc = "done", !.dbError = "null",
                                    !.paymentRecord = row,
                                    !.resp = PaymentResponse(r.payment, row)]]
  /\ UNCHANGED <<registrations, gateway, nPosts, chargeOk>>

\* The registration update settles, with an error (logged) or without, and
\* the payment response is sent.
PostSynced(s) ==
  /\ req[s].pc = "syncing"
  /\ LET r == req[s]
     IN  \E registrationError \in BOOLEAN :
           /\ registrations' = IF registrationError THEN registrations
                               ELSE RegistrationsAfter(r.update)
           /\ req' = [req EXCEPT ![s] =
                [r EXCEPT !.pc = "done",
                          !.registrationError = IF registrationError THEN "error" ELSE "null",
                          !.resp = SyncedResponse(r.payment, r.paymentRecord,
                                                  registrationError)]]
  /\ UNCHANGED <<payments, gateway, nPosts, chargeOk, insertFailed>>

\* if (!paymentId || !status)
MissingPut(b) == ~Truthy(b.paymentId) \/ ~Truthy(b.status)

\* PUT up to its external call: the body is parsed and validated and the
\* update of payments is issued; status.toLowerCase() throws a TypeError
\* when status is not a string.
PutReceive(s, b) ==
  /\ Free(s)
  /\ LET r == [Idle EXCEPT !.op = "PUT", !.body = b]
     IN  req' = [req EXCEPT ![s] =
           IF ~b.ok
           THEN [r EXCEPT !.pc = "done",
                          !.thrown = [kind |-> "SyntaxError", message |-> "Unexpected token"],
                          !.resp = PutCatchResponse]
           ELSE IF MissingPut(b)
           THEN [r EXCEPT !.pc = "done", !.resp = MissingPutResponse]
           ELSE IF b.status.t # "string"
           THEN [r EXCEPT !.pc = "done",
                          !.thrown = [kind |-> "TypeError",
                                      message |-> "status.toLowerCase is not a function"],
                          !.resp = PutCatchResponse]
           ELSE [r EXCEPT !.pc = "updating", !.paymentUpdate = PaymentUpdate(b),
                          !.calls = << "update_payment" >>]]
  /\ UNCHANGED <<payments, registrations, gateway, nPosts, chargeOk, insertFailed>>

\* update().eq().select().single() settles: with the one row it updated, or
\* with an error: the store failed, or the filter selected no row or several
\* (single() asks for exactly one).  Whether the rows are written when
\* several match is the store's business: both outcomes are allowed.
PutUpdated(s) ==
  /\ req[s].pc = "updating"
  /\ LET r == req[s]
         u == r.paymentUpdate
     IN  \E failed \in BOOLEAN, written \in BOOLEAN :
           IF failed \/ Cardinality(Matching(u)) # 1
           THEN /\ payments' = IF ~failed /\ written THEN PaymentsAfter(u) ELSE payments
                /\ req' = [req EXCEPT ![s] =
                     [r EXCEPT !.pc = "done", !.dbError = "error",
                               !.resp = UpdateFailedResponse]]
           ELSE /\ written
                /\ payments' = PaymentsAfter(u)
                /\ req' = [req EXCEPT ![s] =
                     [r EXCEPT !.pc = "done", !.dbError = "null",
                               !.resp = UpdatedResponse(
                                  PaymentsAfter(u)[CHOOSE i \in Matching(u) : TRUE])]]
  /\ UNCHANGED <<registrations, gateway, nPosts, chargeOk, insertFailed>>

----------------------------------------------------------------------------

\* One registration exists, unpaid, for Tour1 and User1.
Init ==
  /\ req = [s \in Slots |-> Idle]
  /\ payments = <<>>
  /\ registrations = << [tournament_id |-> Tour1, user_id |-> User1,
                         payment_status |-> "pending", payment_id |-> <<>>,
                         payment_amount |-> Num(0, 1)] >>
  /\ gateway = <<>>
  /\ nPosts = 0
  /\ chargeOk = 0
  /\ insertFailed = 0

Next ==
  \E s \in OneSlot :
    \/ \E b \in PostBodies : PostReceive(s, b)
    \/ PostCharged(s)
    \/ PostInserted(s)
    \/ PostSynced(s)
    \/ \E b \in PutBodies : PutReceive(s, b)
    \/ PutUpdated(s)

Spec == Init /\ [][Next]_vars

\* Requests handled concurrently, their steps interleaved at the awaits: the
\* entry fee and a payment with another key, and status updates of the
\* first payment.
ConcurrentPostBodies ==
  {EntryFee,
   [EntryFee EXCEPT !.amount = Num(100, 1), !.idempotencyKey = Str(KeyB),
                    !.tournamentId = Undef]}

ConcurrentPutBodies ==
  {Body(TRUE, Undef, Undef, Undef, Undef, Undef, Undef, Str(PaymentId(1)), Str(Failed))}

NextConcurrent ==
  \E s \in Slots :
    \/ \E b \in ConcurrentPostBodies : PostReceive(s, b)
    \/ PostCharged(s)
    \/ PostInserted(s)
    \/ PostSynced(s)
    \/ \E b \in ConcurrentPutBodies : PutReceive(s, b)
    \/ PutUpdated(s)

SpecConcurrent == Init /\ [][NextConcurrent]_vars


----------------------------------------------------------------------------
\* Properties

Range(f) == {f[i] : i \in DOMAIN f}

\* A field that is absent from the body, or there and falsy.
Absent(v) == v \in {Undef, Null, False, Str(<<>>), Num(0, 1)}

\* A number with a fractional part: no integer k has k * d = n.
Fractional(v) == v.t = "number" /\ ~\E k \in -1000..1000 : k * v.d = v.n

\* The POST request of slot s was charged: createPayment returned a payment.
Charged(s) == req[s].op = "POST" /\ req[s].payment # NoPayment

\* C1: whenever the charge succeeds and the insert of the PaymentRecord
\* fails, POST answers 200 with success=true, the gateway paymentId and a
\* warning field; and a charged request is never answered with success=false
\* or with a 4xx/5xx status.
C1_ChargeSurvivesInsertFailure ==
  \A s \in Slots :
    /\ (Charged(s) /\ req[s].dbError = "error") =>
         /\ req[s].pc = "done"
         /\ req[s].resp.status = 200
         /\ req[s].resp.body.success = TRUE
         /\ req[s].resp.body.paymentId = req[s].payment.id
         /\ "warning" \in DOMAIN req[s].resp.body
    /\ (Charged(s) /\ req[s].pc = "done") =>
         /\ req[s].resp.status = 200
         /\ req[s].resp.body.success = TRUE

C1_Witness ==
  \E s \in Slots :
    /\ Charged(s)
    /\ req[s].dbError = "error"
    /\ req[s].pc = "done"
    /\ req[s].resp.status = 200
    /\ req[s].payment.id = PaymentId(1)

\* C2: a POST request whose sourceId, amount or idempotencyKey is missing or
\* falsy is answered 400 with success=false, and makes no call to the
\* gateway or to the store.
C2_MissingFieldRejected ==
  \A s \in Slots :
    (/\ req[s].op = "POST"
     /\ req[s].body.ok
     /\ \/ Absent(req[s].body.sourceId)
        \/ Absent(req[s].body.amount)
        \/ Absent(req[s].body.idempotencyKey)) =>
      /\ req[s].calls = <<>>
      /\ req[s].pc = "done"
      /\ req[s].resp.status = 400
      /\ req[s].resp.body.success = FALSE
      /\ req[s].payment = NoPayment
      /\ req[s].paymentRecord = NoRow

C2_Witness ==
  \E s \in Slots :
    /\ req[s].op = "POST"
    /\ req[s].pc = "done"
    /\ req[s].body.sourceId = Str(Tok)
    /\ req[s].body.amount = Num(250, 1)
    /\ req[s].body.idempotencyKey = Undef
    /\ req[s].resp.status = 400

\* C3: a POST request with sourceId and idempotencyKey present whose amount
\* is zero, negative or non-integral is answered 400, and the gateway is
\* not called.
C3_BadAmountRejected ==
  \A s \in Slots :
    (/\ req[s].op = "POST"
     /\ req[s].body.ok
     /\ ~Absent(req[s].body.sourceId)
     /\ ~Absent(req[s].body.idempotencyKey)
     /\ req[s].body.amount.t = "number"
     /\ \/ req[s].body.amount.n = 0
        \/ req[s].body.amount.n < 0
        \/ Fractional(req[s].body.amount)) =>
      /\ req[s].calls = <<>>
      /\ req[s].pc = "done"
      /\ req[s].resp.status = 400
      /\ req[s].payment = NoPayment

C3_Witness ==
  \E s \in Slots :
    /\ req[s].op = "POST"
    /\ req[s].pc = "done"
    /\ req[s].body.sourceId = Str(Tok)
    /\ req[s].body.idempotencyKey = Str(KeyA)
    /\ req[s].body.amount = Num(3, 2)
    /\ req[s].resp.status = 400
    /\ req[s].calls = <<>>

\* C4: when the charge raises a SquarePaymentError with message M, POST
\* answers 400 with success=false and error = M; any other raised error is
\* answered 500 with the generic failure message.
C4_GatewayErrorSurfaced ==
  \A s \in Slots :
    /\ (req[s].op = "POST" /\ req[s].thrown.kind = "SquarePaymentError") =>
         /\ req[s].pc = "done"
         /\ req[s].resp.status = 400
         /\ req[s].resp.body.success = FALSE
         /\ req[s].resp.body.error = req[s].thrown.message
    /\ (req[s].op = "POST" /\ req[s].thrown.kind \notin {"none", "SquarePaymentError"}) =>
         /\ req[s].pc = "done"
         /\ req[s].resp.status = 500
         /\ req[s].resp.body.success = FALSE
         /\ req[s].resp.body.error = "Payment processing failed"

C4_Witness ==
  \E s \in Slots :
    /\ req[s].op = "POST"
    /\ req[s].pc = "done"
    /\ req[s].calls = << "createPayment" >>
    /\ req[s].thrown = [kind |-> "SquarePaymentError", message |-> "Card declined"]
    /\ req[s].resp.status = 400
    /\ req[s].resp.body.error = "Card declined"

\* x is a hundredth of the number v: 100 * x = v, as fractions.
HundredthOf(x, v) ==
  /\ x.t = "number"
  /\ x.d > 0
  /\ x.n * 100 * v.d = v.n * x.d

\* The success response of POST for a payment and its record's identifier.
IsPaymentResponse(resp, payment, recordId) ==
  /\ resp.status = 200
  /\ DOMAIN resp.body = {"success", "paymentId", "amount", "status", "recordId"}
  /\ resp.body.success = TRUE
  /\ resp.body.paymentId = payment.id
  /\ resp.body.amount = payment.amount
  /\ resp.body.status = payment.status
  /\ resp.body.recordId = recordId

\* C5: with tournamentId and userId present and the charge and the insert
\* both successful, the registration update is issued with
\* payment_status = "completed", payment_id = the gateway payment id and
\* payment_amount = amount / 100; whether that update fails or not, the
\* response is the same 200 success response.
C5_RegistrationSyncNonFatal ==
  \A s \in Slots :
    (/\ Charged(s)
     /\ req[s].dbError = "null"
     /\ ~Absent(req[s].body.tournamentId)
     /\ ~Absent(req[s].body.userId)) =>
      /\ req[s].calls = << "createPayment", "insert", "update" >>
      /\ req[s].update.payment_status = "completed"
      /\ req[s].update.payment_id = req[s].payment.id
      /\ HundredthOf(req[s].update.payment_amount, req[s].body.amount)
      /\ req[s].update.tournament_id = req[s].body.tournamentId
      /\ req[s].update.user_id = req[s].body.userId
      /\ req[s].pc \in {"syncing", "done"}
      /\ req[s].pc = "done" =>
           /\ req[s].registrationError \in {"null", "error"}
           /\ IsPaymentResponse(req[s].resp, req[s].payment, req[s].paymentRecord.id)
      /\ (req[s].pc = "done" /\ req[s].registrationError = "null") =>
           \E i \in DOMAIN registrations :
             /\ registrations[i].payment_status = "completed"
             /\ registrations[i].payment_id = req[s].payment.id

C5_Witness ==
  \E s \in Slots :
    /\ Charged(s)
    /\ req[s].pc = "done"
    /\ req[s].dbError = "null"
    /\ req[s].registrationError = "error"
    /\ req[s].resp.status = 200
    /\ registrations[1].payment_status = "pending"

Quiet == \A s \in Slots : Free(s)

\* The POST requests whose insert was issued and has not settled.
Inserting == {s \in Slots : req[s].pc = "inserting"}

\* C7, as claimed: after any sequence of POST requests the number of
\* PaymentRecords equals the number of successful gateway charge calls.
C7_OneRecordPerCharge == Quiet => Len(payments) = chargeOk

\* Every successful charge call is followed by one insert, which adds one
\* row unless it fails.
C7_RecordsCount ==
  /\ Len(payments) + insertFailed + Cardinality(Inserting) = chargeOk
  /\ Len(payments) <= chargeOk
  /\ \A i \in DOMAIN payments : payments[i].id = i

\* A step keeps every PaymentRecord: its id, payment id and amount.
C7_NoRecordDeleted ==
  /\ Len(payments') >= Len(payments)
  /\ \A i \in DOMAIN payments :
       /\ payments'[i].id = payments[i].id
       /\ payments'[i].square_payment_id = payments[i].square_payment_id
       /\ payments'[i].amount = payments[i].amount

\* C7, amended: at most one PaymentRecord is created per successful gateway
\* charge call: the number of PaymentRecords is the number of successful
\* charge calls less those whose insert failed or has not settled yet; and
\* no step deletes a PaymentRecord.
C7_AtMostOneRecordPerCharge == [](C7_RecordsCount) /\ [][C7_NoRecordDeleted]_vars

C7_Witness ==
  /\ Quiet
  /\ chargeOk = 2
  /\ insertFailed = 1
  /\ Len(payments) = 1

\* C10, as claimed: at most one PaymentRecord exists per gateway payment
\* identifier.
C10_OneRecordPerPaymentId ==
  \A i, j \in DOMAIN payments :
    payments[i].square_payment_id = payments[j].square_payment_id => i = j

\* lo is s with its upper-case letters replaced by their lower-case ones.
IsLowerCaseOf(lo, s) ==
  /\ Len(lo) = Len(s)
  /\ \A i \in DOMAIN s :
       /\ lo[i] \notin Range(UpperCase)
       /\ \/ lo[i] = s[i]
          \/ \E k \in DOMAIN UpperCase : UpperCase[k] = s[i] /\ LowerCase[k] = lo[i]

\* The PaymentRecords whose gateway payment identifier is paymentId.
RecordsOf(paymentId) ==
  {i \in DOMAIN payments : Str(payments[i].square_payment_id) = paymentId}

\* A settled PUT request whose body parsed.
PutDone(s) == req[s].op = "PUT" /\ req[s].pc = "done" /\ req[s].body.ok

\* A PUT request makes no gateway call and is answered 400 when paymentId or
\* status is missing.
C8_PutValidates(s) ==
  /\ req[s].op = "PUT" => "createPayment" \notin Range(req[s].calls)
  /\ (PutDone(s) /\ (Absent(req[s].body.paymentId) \/ Absent(req[s].body.status))) =>
       /\ req[s].resp.status = 400
       /\ req[s].calls = <<>>

\* C8, as claimed: PUT answers 400 when paymentId or status is missing, and
\* 200 with the updated record, its status lower-cased, whenever both are
\* present and a stored PaymentRecord has that gateway payment identifier;
\* it makes no gateway call.
C8_PutAnswers200WhenRecordExists ==
  \A s \in Slots :
    /\ C8_PutValidates(s)
    /\ (/\ PutDone(s)
        /\ ~Absent(req[s].body.paymentId)
        /\ ~Absent(req[s].body.status)
        /\ RecordsOf(req[s].body.paymentId) # {}) =>
         req[s].resp.status = 200

\* C8, amended: PUT answers 400 when paymentId or status is missing; with
\* both present, status a string, and the store's update returning without
\* an error (it returns an error unless exactly one PaymentRecord has that
\* gateway payment identifier) it answers 200 with the updated record, whose
\* status is the lower-cased status supplied; when status is not a string or
\* the update returns an error it answers 500; it makes no gateway call.
C8_PutAnswers200WhenUpdateSucceeds ==
  \A s \in Slots :
    /\ C8_PutValidates(s)
    /\ (/\ PutDone(s)
        /\ ~Absent(req[s].body.paymentId)
        /\ ~Absent(req[s].body.status)) =>
         IF req[s].body.status.t = "string" /\ req[s].dbError = "null"
         THEN /\ req[s].resp.status = 200
              /\ req[s].resp.body.success = TRUE
              /\ Str(req[s].resp.body.payment.square_payment_id) = req[s].body.paymentId
              /\ IsLowerCaseOf(req[s].resp.body.payment.status, req[s].body.status.s)
              /\ RecordsOf(req[s].body.paymentId) =
                   {i \in DOMAIN payments : payments[i] = req[s].resp.body.payment}
              /\ Cardinality(RecordsOf(req[s].body.paymentId)) = 1
         ELSE /\ req[s].resp.status = 500
              /\ req[s].resp.body.success = FALSE

C8_Witness ==
  \E s \in Slots :
    /\ PutDone(s)
    /\ req[s].body.status = Str(Failed)
    /\ req[s].resp.status = 200
    /\ req[s].resp.body.payment.status = << "f","a","i","l","e","d" >>
    /\ req[s].resp.body.payment.metadata.square_payment.status = COMPLETED

\* The external calls of a POST request, in the order the code makes them.
PostCallOrder ==
  {<<>>, << "createPayment" >>, << "createPayment", "insert" >>,
   << "createPayment", "insert", "update" >>}

\* What the calls made so far by the POST request of slot s rest on.
C9_CallsGated(s) ==
  /\ req[s].calls \in PostCallOrder
  /\ "createPayment" \in Range(req[s].calls) =>
       /\ req[s].body.ok
       /\ ~Absent(req[s].body.sourceId)
       /\ ~Absent(req[s].body.amount)
       /\ ~Absent(req[s].body.idempotencyKey)
       /\ req[s].body.amount.t = "number"
       /\ req[s].body.amount.n > 0
       /\ ~Fractional(req[s].body.amount)
  /\ "insert" \in Range(req[s].calls) =>
       /\ req[s].thrown = NoError
       /\ \E i \in DOMAIN gateway : gateway[i].payment = req[s].payment
  /\ req[s].thrown # NoError =>
       /\ "insert" \notin Range(req[s].calls)
       /\ "update" \notin Range(req[s].calls)
       /\ req[s].pc = "done"
  /\ "update" \in Range(req[s].calls) =>
       /\ req[s].dbError = "null"
       /\ \E i \in DOMAIN payments : payments[i].id = req[s].paymentRecord.id
       /\ ~Absent(req[s].body.tournamentId)
       /\ ~Absent(req[s].body.userId)

\* A step writes the store only for a request whose earlier call returned:
\* a row is inserted only by a charged request, a registration is changed
\* only by a request whose insert succeeded, and the step in which the
\* charge fails writes nothing.
C9_WritesGated ==
  /\ Len(payments') > Len(payments) =>
       \E s \in Slots : req[s].pc = "inserting" /\ Charged(s) /\ req'[s].dbError = "null"
  /\ registrations' # registrations =>
       \E s \in Slots : req[s].pc = "syncing" /\ req[s].dbError = "null"
  /\ \A s \in Slots :
       (req[s].pc = "charging" /\ req'[s].thrown # NoError) =>
         /\ payments' = payments
         /\ registrations' = registrations

\* C9: the gateway is called only after both validations passed; the insert
\* is issued only after the charge returned a payment, and a failed charge
\* leaves the store without insert or registration update; the registration
\* update is issued only after the insert succeeded and only with
\* tournamentId and userId both present.
C9_CallsOrderedAndGated ==
  /\ [](\A s \in Slots : req[s].op = "POST" => C9_CallsGated(s))
  /\ [][C9_WritesGated]_vars

C9_Witness ==
  \E s \in Slots :
    /\ req[s].op = "POST"
    /\ req[s].pc = "done"
    /\ req[s].calls = << "createPayment", "insert", "update" >>
    /\ registrations[1].payment_id = req[s].payment.id

====
